---- MODULE Spec2Model ----
(***************************************************************************)
(* Multi-IC Tester firmware (Arduino Mega 2560): the command loop of       *)
(* main.cpp, the ModeManager, and the SRAMStrategy bus cycles and test     *)
(* patterns, modelled register write by register write, together with the  *)
(* SRAM device the bus is wired to.                                        *)
(***************************************************************************)
EXTENDS Integers, Sequences, FiniteSets, TLC

(***************************************************************************)
(* Bounds of the model (not program constants).                            *)
(***************************************************************************)
\* Number of commands one session of the command loop receives.
MaxCmds == 3

(***************************************************************************)
(* Fixed-width arithmetic.                                                 *)
(***************************************************************************)
ToU8(x) == x % 256
ToU16(x) == x % 65536

Bit(x, n) == (x \div (2 ^ n)) % 2

RECURSIVE BitAnd(_, _)
BitAnd(x, y) ==
    IF x = 0 \/ y = 0 THEN 0
    ELSE (x % 2) * (y % 2) + 2 * BitAnd(x \div 2, y \div 2)

RECURSIVE BitOr(_, _)
BitOr(x, y) ==
    IF x = 0 THEN y
    ELSE IF y = 0 THEN x
    ELSE (IF x % 2 = 1 \/ y % 2 = 1 THEN 1 ELSE 0) + 2 * BitOr(x \div 2, y \div 2)

\* x & ~mask on an 8-bit register
BitClear(x, mask) == x - BitAnd(x, mask)

(***************************************************************************)
(* Pin assignment of the SRAM control lines on PORTG.                      *)
(***************************************************************************)
CS_BIT == 0
OE_BIT == 2
WE_BIT == 3
ControlMask == (2 ^ CS_BIT) + (2 ^ OE_BIT) + (2 ^ WE_BIT)

DDR_OUTPUT == 255
DDR_INPUT == 0

VARIABLES
    \* ATmega2560 I/O registers
    DDRA, DDRC, DDRL, DDRG, PORTA, PORTC, PORTL, PORTG,
    \* the SRAM device: cell contents and its wiring fault
    mem, fault,
    \* ModeManager
    currentMode, currentStrategy,
    \* SRAMStrategy fields
    sramSize, maxAddress, addressBits, uart,
    \* avr-libc random() state
    rng,
    \* the Timer3Clock object with the Timer3 and port E registers it writes
    timer3,
    \* loop(): the command being handled and how many were received
    cmd, ncmds,
    \* control: current step, and the frame of the running test
    pc, frame,
    \* UART output of the command being handled
    uartOut

hw == <<DDRA, DDRC, DDRL, DDRG, PORTA, PORTC, PORTL, PORTG>>
strategyFields == <<sramSize, maxAddress, addressBits, uart>>
manager == <<currentMode, currentStrategy>>
vars == <<DDRA, DDRC, DDRL, DDRG, PORTA, PORTC, PORTL, PORTG, mem, fault,
          currentMode, currentStrategy, sramSize, maxAddress, addressBits,
          uart, rng, timer3, cmd, ncmds, pc, frame, uartOut>>

(***************************************************************************)
(* The SRAM device on the bus.  A cell whose content is not known (never   *)
(* written, or written while nobody drove the data lines) is absent from   *)
(* mem.  fault is the wiring fault of the device under test.               *)
(***************************************************************************)
NoFault == [kind |-> "none", bit |-> 0]
Faults ==
    {NoFault}
    \cup {[kind |-> "addrLow", bit |-> b] : b \in {0, 1}}
    \cup {[kind |-> k, bit |-> b] : k \in {"dataLow", "dataHigh"}, b \in {0, 7}}

Byte == 0 .. 255

\* A line is asserted when its pin is an output and driven low.
Asserted(b) == Bit(DDRG, b) = 1 /\ Bit(PORTG, b) = 0
CSAsserted == Asserted(CS_BIT)
OEAsserted == Asserted(OE_BIT)
WEAsserted == Asserted(WE_BIT)

\* the level a data line stuck by the fault forces on a byte
DataFault(v) ==
    CASE fault.kind = "dataLow" -> v - Bit(v, fault.bit) * (2 ^ fault.bit)
      [] fault.kind = "dataHigh" -> v + (1 - Bit(v, fault.bit)) * (2 ^ fault.bit)
      [] OTHER -> v

\* the cell the address pins select, through the device's address fault
CellOf(pa, pc_) ==
    LET pins == pa + 256 * pc_
    IN  IF fault.kind = "addrLow"
        THEN pins - Bit(pins, fault.bit) * (2 ^ fault.bit)
        ELSE pins
DeviceCell == CellOf(PORTA, PORTC)

\* the device is being written while /CS and /WE are both asserted
WriteActive(ddrg, portg) ==
    /\ Bit(ddrg, CS_BIT) = 1 /\ Bit(portg, CS_BIT) = 0
    /\ Bit(ddrg, WE_BIT) = 1 /\ Bit(portg, WE_BIT) = 0

\* mem after the write strobe ends: the cell latches what is on the data lines
Latch ==
    IF DDRL = DDR_OUTPUT
    THEN [c \in DOMAIN mem \cup {DeviceCell} |->
            IF c = DeviceCell THEN DataFault(PORTL) ELSE mem[c]]
    ELSE [c \in DOMAIN mem \ {DeviceCell} |-> mem[c]]

\* what a read of PINL can return
PinL ==
    IF CSAsserted /\ OEAsserted /\ ~WEAsserted /\ DDRL = DDR_INPUT
       /\ DeviceCell \in DOMAIN mem
    THEN {DataFault(mem[DeviceCell])}
    ELSE Byte

(***************************************************************************)
(* Register writes.  The device reacts to the control lines: when a write  *)
(* strobe ends, the addressed cell latches the data lines.                 *)
(***************************************************************************)
WriteReg(r, v) ==
    /\ DDRA' = IF r = "DDRA" THEN v ELSE DDRA
    /\ DDRC' = IF r = "DDRC" THEN v ELSE DDRC
    /\ DDRL' = IF r = "DDRL" THEN v ELSE DDRL
    /\ DDRG' = IF r = "DDRG" THEN v ELSE DDRG
    /\ PORTA' = IF r = "PORTA" THEN v ELSE PORTA
    /\ PORTC' = IF r = "PORTC" THEN v ELSE PORTC
    /\ PORTL' = IF r = "PORTL" THEN v ELSE PORTL
    /\ PORTG' = IF r = "PORTG" THEN v ELSE PORTG
    /\ mem' = IF WriteActive(DDRG, PORTG) /\ ~WriteActive(DDRG', PORTG')
              THEN Latch ELSE mem

(***************************************************************************)
(* UART output.                                                            *)
(***************************************************************************)
Msg(lvl, text, args) == [lvl |-> lvl, text |-> text, args |-> args]
Info(text) == Msg("INFO", text, <<>>)
Ok(text) == Msg("OK", text, <<>>)
Error(text) == Msg("ERROR", text, <<>>)

\* the strategy reports only through its handler pointer
StrategySend(msgs) == IF uart # "nullptr" THEN uartOut \o msgs ELSE uartOut

(***************************************************************************)
(* SRAMStrategy: configuration and address helpers.                        *)
(***************************************************************************)
\* setSize: the loop counting the bits of sizeInBytes - 1 (16-bit)
RECURSIVE BitLength(_)
BitLength(temp) == IF temp > 0 THEN 1 + BitLength(temp \div 2) ELSE 0

SetSizeMaxAddress(sizeInBytes) == ToU16(sizeInBytes - 1)
SetSizeAddressBits(sizeInBytes) == BitLength(ToU16(sizeInBytes - 1))

\* pin 26 is a chip select on the 8 KB parts: A13 is forced high for them
SmallChipLimit == 8192
A13_BIT == 5
SetAddressLow_HighByte(addr) == BitAnd(addr \div 256, 255)
SetAddressLow(addr) == BitAnd(addr, 255)
SetAddressHigh(addr) ==
    LET highByte == BitAnd(addr \div 256, 255)
    IN  IF sramSize <= SmallChipLimit THEN BitOr(highByte, 2 ^ A13_BIT) ELSE highByte

\* shouldTestAddress, in the 16-bit unsigned arithmetic of the target
QuickEdge == 512
QuickStrideMask == 127
ShouldTestAddress_Everything(addr, fullTest) == TRUE
ShouldTestAddress_NoFirstBlock(addr, fullTest) ==
    \/ fullTest
    \/ addr > ToU16(maxAddress - QuickEdge)
    \/ BitAnd(addr, ToU16(addr - 1)) = 0
    \/ BitAnd(addr, QuickStrideMask) = 0
ShouldTestAddress(addr, fullTest) ==
    \/ fullTest
    \/ addr < QuickEdge
    \/ addr > ToU16(maxAddress - QuickEdge)
    \/ BitAnd(addr, ToU16(addr - 1)) = 0
    \/ BitAnd(addr, QuickStrideMask) = 0

TestName(testNumber) ==
    CASE testNumber = 1 -> "Basic Read/Write"
      [] testNumber = 2 -> "Walking Ones Address"
      [] testNumber = 3 -> "Walking Ones Data"
      [] testNumber = 4 -> "Checkerboard"
      [] testNumber = 5 -> "Inverse Checkerboard"
      [] testNumber = 6 -> "Address Equals Data"
      [] testNumber = 7 -> "Random Pattern"
      [] OTHER -> "Unknown"

TestStartMsg(testNumber, fullTest) ==
    Msg("INFO", "Test start", <<testNumber, IF fullTest THEN 1 ELSE 0>>)
TestResultMsg(testNumber, passed) ==
    IF passed THEN Msg("OK", "PASSED", <<testNumber>>)
    ELSE Msg("ERROR", "FAILED", <<testNumber>>)
TestErrorMsg_Swapped(testNumber, addr, expected, actual) ==
    Msg("ERROR", "Test FAIL", <<testNumber, addr, actual, expected>>)
TestErrorMsg(testNumber, addr, expected, actual) ==
    Msg("ERROR", "Test FAIL", <<testNumber, addr, expected, actual>>)
\* percent is an 8-bit value computed in 32 bits
ProgressMsg(testNumber, phase, current, total) ==
    Msg("INFO", "Progress", <<testNumber, phase, ToU8((current * 100) \div total)>>)
LineHintMsg(testNumber, bit) ==
    Msg("INFO", IF testNumber = 2 THEN "Possible issue with address line"
                ELSE "Possible issue with data line", <<bit>>)

(***************************************************************************)
(* avr-libc random(): randomSeed(seed) and random(256).                    *)
(***************************************************************************)
RandomSeedValue == 12345
RandomNext(x0) ==
    LET x == IF x0 = 0 THEN 123459876 ELSE x0
        hi == x \div 127773
        lo == x % 127773
        y == 16807 * lo - 2836 * hi
    IN  IF y < 0 THEN y + 2147483647 ELSE y
RandomByte(x) == x % 256

(***************************************************************************)
(* The seven test patterns, as the phases each function runs in order.     *)
(*   "wv": write then read back and compare, address by address           *)
(*   "w" : write phase      "v": verify phase                              *)
(***************************************************************************)
PatternPhases(testNumber) ==
    CASE testNumber = 1 -> <<"wv", "wv">>
      [] testNumber = 2 -> <<"wv">>
      [] testNumber = 3 -> <<"wv">>
      [] testNumber = 4 -> <<"w", "v", "w", "v">>
      [] testNumber = 5 -> <<"w", "v", "w", "v">>
      [] testNumber = 6 -> <<"w", "v">>
      [] testNumber = 7 -> <<"w", "v">>
      [] OTHER -> <<>>

\* tests 2 and 3 loop over a bit number, the others over every address
BitLoop(testNumber) == testNumber \in {2, 3}
BitLoopLimit_SevenDataBits(testNumber) == IF testNumber = 2 THEN addressBits ELSE 7
BitLoopLimit(testNumber) == IF testNumber = 2 THEN addressBits ELSE 8

\* the loop condition of the phase
LoopContinues(testNumber, i) ==
    IF BitLoop(testNumber) THEN i < BitLoopLimit(testNumber) ELSE i <= maxAddress

\* the address the iteration accesses
PatternAddr_AddressZero(testNumber, i) == IF testNumber = 2 THEN ToU16(2 ^ i) ELSE 0
PatternAddr(testNumber, i) ==
    CASE testNumber = 2 -> ToU16(2 ^ i)
      [] testNumber = 3 -> 0
      [] OTHER -> i

\* the byte the iteration writes or expects (rnd: the generator's next state)
PatternData(testNumber, phase, i, rnd) ==
    CASE testNumber = 1 -> IF phase = 1 THEN 170 ELSE 85
      [] testNumber = 2 -> 170
      [] testNumber = 3 -> ToU8(2 ^ i)
      [] testNumber = 4 -> IF phase <= 2 THEN 85 ELSE 170
      [] testNumber = 5 -> IF phase <= 2 THEN 170 ELSE 85
      [] testNumber = 6 -> BitAnd(i, 255)
      [] testNumber = 7 -> RandomByte(rnd)
      [] OTHER -> 0

\* the phases that report progress every 4096 addresses in FULL mode
ReportsProgress(testNumber, phase) ==
    \/ testNumber = 1 /\ phase = 1
    \/ testNumber \in {4, 5} /\ phase <= 2
    \/ testNumber \in {6, 7}
ProgressDue(testNumber, phase, addr, fullTest) ==
    /\ ReportsProgress(testNumber, phase)
    /\ fullTest /\ BitAnd(addr, 4095) = 0 /\ addr > 0

(***************************************************************************)
(* Timer3Clock: the clock generator on OC3A (PE3).  A record holds the     *)
(* object's fields and the registers its methods write; the value of TCNT3 *)
(* is the one the program wrote last.  32-bit values are kept below 2^31.  *)
(***************************************************************************)
F_CPU == 16000000
COM3A0 == 6
WGM32 == 3
CS30 == 0
CS31 == 1
CS32 == 2
DDE3 == 3
PORTE3 == 3

Timer3Constructed ==
    [currentFrequency |-> 0, isRunning |-> FALSE, prescalerBits |-> 0,
     TCCR3A |-> 0, TCCR3B |-> 0, OCR3A |-> 0, TCNT3 |-> 0, DDRE |-> 0, PORTE |-> 0]

prescalers == <<1, 8, 64, 256, 1024>>
csBits == <<2 ^ CS30, 2 ^ CS31, (2 ^ CS31) + (2 ^ CS30), 2 ^ CS32, (2 ^ CS32) + (2 ^ CS30)>>

\* 2UL * prescalers[i] * frequency exceeds 32 bits
ProductOverflows(i, frequency) == frequency > 2147483647 \div prescalers[i]

\* F_CPU / (2UL * prescalers[i] * frequency) in unsigned 32-bit arithmetic:
\* the product is frequency * 2^k modulo 2^32, and a product of 2^31 or more
\* is above F_CPU (frequency is not 0 modulo 2^(32-k): no division by zero)
PrescalerShift(i) == BitLength(prescalers[i])
Calc_NoFactorTwo(i, frequency) == F_CPU \div (prescalers[i] * frequency)
Calc(i, frequency) ==
    LET k == PrescalerShift(i)
        m == IF k = 1 THEN frequency ELSE frequency % (2 ^ (32 - k))
    IN  IF m >= 2 ^ (31 - k) THEN 0 ELSE F_CPU \div (m * (2 ^ k))

\* the first prescaler whose quotient is in 1..65536, else the clamp
OcrLimit == 65536
CalcValid(calc) == calc > 0 /\ calc <= OcrLimit
RECURSIVE SelectFrom(_, _)
SelectFrom(i, frequency) ==
    IF i > Len(prescalers)
    THEN [bits |-> csBits[5], ocr3a |-> 65535, index |-> 0]
    ELSE IF CalcValid(Calc(i, frequency))
    THEN [bits |-> csBits[i], ocr3a |-> ToU16(Calc(i, frequency) - 1), index |-> i]
    ELSE SelectFrom(i + 1, frequency)
selectPrescaler(frequency) == SelectFrom(1, frequency)

Timer3Stop(t) ==
    [t EXCEPT !.TCCR3B = 0, !.TCCR3A = 0,
              !.PORTE = BitClear(t.PORTE, 2 ^ PORTE3),
              !.isRunning = FALSE]

Timer3Configure_KeepsRunning(t, frequency) ==
    LET sel == selectPrescaler(frequency)
    IN  [t EXCEPT !.prescalerBits = sel.bits,
                  !.TCCR3A = 2 ^ COM3A0,
                  !.TCCR3B = 2 ^ WGM32,
                  !.OCR3A = sel.ocr3a,
                  !.TCNT3 = 0,
                  !.DDRE = BitOr(t.DDRE, 2 ^ DDE3),
                  !.currentFrequency = frequency]
Timer3Configure(t, frequency) ==
    LET s == Timer3Stop(t)
        sel == selectPrescaler(frequency)
    IN  [s EXCEPT !.prescalerBits = sel.bits,
                  !.TCCR3A = 2 ^ COM3A0,
                  !.TCCR3B = 2 ^ WGM32,
                  !.OCR3A = sel.ocr3a,
                  !.TCNT3 = 0,
                  !.DDRE = BitOr(s.DDRE, 2 ^ DDE3),
                  !.currentFrequency = frequency,
                  !.isRunning = FALSE]

Timer3Start(t) ==
    [t EXCEPT !.TCCR3B = BitOr(2 ^ WGM32, t.prescalerBits), !.isRunning = TRUE]

(***************************************************************************)
(* Inputs of the command loop.                                             *)
(***************************************************************************)
\* values of sizeStr.toInt() in MODE SRAM <size>
SizeInputs == {-1, 0, 1, 2, 3, 4, 65536, 65537}
\* values of param.toInt() in TEST <n>
TestNumInputs == (0 .. 8) \cup {257}
\* MODE parameters that are not "SRAM <size>"
OtherModeParams == {"", "Z80", "6502", "SRAM", "XYZ"}

NoCmd == [type |-> "NONE", arg |-> 0, full |-> FALSE]
\* the frame of the strategy call in progress; nw and nr count the write and
\* read cycles the running pattern has completed
IdleFrame ==
    [test |-> 0, phase |-> 0, i |-> 0, fullTest |-> FALSE, includeRandom |-> FALSE,
     runAll |-> FALSE, allPassed |-> TRUE, passed |-> TRUE, addr |-> 0, data |-> 0,
     rd |-> 0, step |-> 0, ret |-> "none", caller |-> "none", nw |-> 0, nr |-> 0]

(***************************************************************************)
(* Power-on: the I/O registers read 0, the managers are as constructed,    *)
(* setup() has run and loop() waits for the first command.                 *)
(***************************************************************************)
Init ==
    /\ DDRA = 0 /\ DDRC = 0 /\ DDRL = 0 /\ DDRG = 0
    /\ PORTA = 0 /\ PORTC = 0 /\ PORTL = 0 /\ PORTG = 0
    /\ mem = <<>>
    /\ fault \in Faults
    /\ currentMode = "NONE" /\ currentStrategy = "nullptr"
    /\ sramSize = 0 /\ maxAddress = 0 /\ addressBits = 0 /\ uart = "nullptr"
    /\ rng = 1
    /\ timer3 = Timer3Constructed
    /\ cmd = NoCmd /\ ncmds = 0
    /\ pc = "loop" /\ frame = IdleFrame
    /\ uartOut = <<>>

\* loop() takes the next line: a new command starts with an empty output
Receive(c) ==
    /\ pc = "loop"
    /\ ncmds < MaxCmds
    /\ ncmds' = ncmds + 1
    /\ cmd' = c

(***************************************************************************)
(* handleModeCommand                                                       *)
(***************************************************************************)
\* every MODE parameter but "SRAM <size>" ends in an error reply
ModeErrorReply(parameter) ==
    CASE parameter = "" ->
            <<Error("Missing IC type. Usage: MODE <IC>"),
              Info("IC types: Z80, 6502, SRAM <size>"), Info("Example: MODE SRAM 32768")>>
      [] parameter = "Z80" ->
            <<Error("Z80 strategy not implemented yet"), Info("Will be available in Phase 4")>>
      [] parameter = "6502" ->
            <<Error("6502 strategy not implemented yet"), Info("Will be available in Phase 5")>>
      [] OTHER ->
            <<Error("Invalid IC type"), Info("IC types: Z80, 6502, SRAM <size>"),
              Info("Example: MODE SRAM 32768")>>

HandleModeOther ==
    \E parameter \in OtherModeParams :
        /\ Receive([type |-> "MODE", arg |-> 0, full |-> FALSE])
        /\ uartOut' = ModeErrorReply(parameter)
        /\ frame' = IdleFrame
        /\ UNCHANGED <<hw, mem, fault, manager, strategyFields, rng, pc, timer3>>

\* the size check of MODE SRAM <size>: toInt() yields a 32-bit signed value, and
\* a negative one converts to an unsigned value above 2^31
MaxSramSize == 65536
SizeRejected_WhenActive(size) ==
    size = 0 \/ size > MaxSramSize \/ size < 0 \/ currentMode = "SRAM62256"
SizeRejected(size) == size = 0 \/ size > MaxSramSize \/ size < 0

HandleModeSRAM_SizeStoredFirst ==
    \E v \in SizeInputs :
        LET size == v IN
        /\ Receive([type |-> "MODE", arg |-> size, full |-> FALSE])
        /\ IF SizeRejected(size)
           THEN /\ uartOut' = <<Error("Invalid SRAM size"),
                                Info("Valid sizes: 8192 (8KB), 32768 (32KB)")>>
                /\ pc' = pc
           ELSE /\ uartOut' = <<>>
                /\ pc' = "setSize"
        /\ sramSize' = ToU16(size)
        /\ frame' = IdleFrame
        /\ UNCHANGED <<hw, mem, fault, manager, maxAddress, addressBits, uart, rng, timer3>>
HandleModeSRAM ==
    \E v \in SizeInputs :
        LET size == v IN
        /\ Receive([type |-> "MODE", arg |-> size, full |-> FALSE])
        /\ IF SizeRejected(size)
           THEN /\ uartOut' = <<Error("Invalid SRAM size"),
                                Info("Valid sizes: 8192 (8KB), 32768 (32KB)")>>
                /\ pc' = pc
           ELSE /\ uartOut' = <<>>
                /\ pc' = "setSize"
        /\ frame' = IdleFrame
        /\ UNCHANGED <<hw, mem, fault, manager, strategyFields, rng, timer3>>

\* sramStrategy.setSize((uint16_t)size)
SetSize ==
    /\ pc = "setSize"
    /\ sramSize' = ToU16(cmd.arg)
    /\ maxAddress' = SetSizeMaxAddress(ToU16(cmd.arg))
    /\ addressBits' = SetSizeAddressBits(ToU16(cmd.arg))
    /\ pc' = "setUARTHandler"
    /\ UNCHANGED <<hw, mem, fault, manager, uart, rng, cmd, ncmds, frame, uartOut, timer3>>

SetUARTHandler_SkipsConfigurePins ==
    /\ pc = "setUARTHandler"
    /\ uart' = "uart"
    /\ pc' = "setStrategy"
    /\ UNCHANGED <<hw, mem, fault, manager, sramSize, maxAddress, addressBits, rng,
                   cmd, ncmds, frame, uartOut, timer3>>
SetUARTHandler ==
    /\ pc = "setUARTHandler"
    /\ uart' = "uart"
    /\ pc' = "configurePins"
    /\ frame' = [frame EXCEPT !.step = 1]
    /\ UNCHANGED <<hw, mem, fault, manager, sramSize, maxAddress, addressBits, rng,
                   cmd, ncmds, uartOut, timer3>>

\* configurePins, one register write per step
ConfigurePinsSteps == 6
\* the control lines configurePins drives high
IdleControlLevels_NoWE == (2 ^ CS_BIT) + (2 ^ OE_BIT)
IdleControlLevels == ControlMask
ConfigurePinsOp(k) ==
    CASE k = 1 -> [reg |-> "DDRA", val |-> DDR_OUTPUT]
      [] k = 2 -> [reg |-> "DDRC", val |-> DDR_OUTPUT]
      [] k = 3 -> [reg |-> "DDRL", val |-> DDR_INPUT]
      [] k = 4 -> [reg |-> "PORTL", val |-> 0]
      [] k = 5 -> [reg |-> "DDRG", val |-> BitOr(DDRG, ControlMask)]
      [] k = 6 -> [reg |-> "PORTG", val |-> BitOr(PORTG, IdleControlLevels)]

ConfigurePins ==
    /\ pc = "configurePins"
    /\ LET op == ConfigurePinsOp(frame.step) IN WriteReg(op.reg, op.val)
    /\ IF frame.step < ConfigurePinsSteps
       THEN /\ frame' = [frame EXCEPT !.step = frame.step + 1]
            /\ pc' = pc
       ELSE /\ frame' = [frame EXCEPT !.step = 0]
            /\ pc' = "setStrategy"
    /\ UNCHANGED <<fault, manager, strategyFields, rng, cmd, ncmds, uartOut, timer3>>

\* modeManager.setStrategy(&sramStrategy, ModeManager::SRAM62256)
SetStrategy_ModeOnly ==
    /\ pc = "setStrategy"
    /\ currentMode' = "SRAM62256"
    /\ pc' = "modeReply"
    /\ UNCHANGED <<hw, mem, fault, currentStrategy, strategyFields, rng, cmd, ncmds, frame,
                   uartOut, timer3>>
SetStrategy ==
    /\ pc = "setStrategy"
    /\ currentStrategy' = "sramStrategy"
    /\ currentMode' = "SRAM62256"
    /\ pc' = "modeReply"
    /\ UNCHANGED <<hw, mem, fault, strategyFields, rng, cmd, ncmds, frame, uartOut, timer3>>

ModeReply ==
    /\ pc = "modeReply"
    /\ uartOut' = uartOut \o <<Msg("OK", "SRAM mode set", <<ToU16(cmd.arg)>>)>>
    /\ pc' = "loop"
    /\ UNCHANGED <<hw, mem, fault, manager, strategyFields, rng, cmd, ncmds, frame, timer3>>

(***************************************************************************)
(* handleResetCommand and SRAMStrategy::reset                              *)
(***************************************************************************)
NoModeSelected_WrongMode == currentMode = "Z80"
NoModeSelected == currentMode = "NONE"

HandleResetCommand ==
    /\ Receive([type |-> "RESET", arg |-> 0, full |-> FALSE])
    /\ IF NoModeSelected
       THEN /\ uartOut' = <<Error("No IC mode selected"), Info("Use MODE command first")>>
            /\ pc' = pc
            /\ frame' = IdleFrame
       ELSE IF currentStrategy = "nullptr"
       THEN /\ uartOut' = <<Error("No strategy configured")>>
            /\ pc' = pc
            /\ frame' = IdleFrame
       ELSE /\ uartOut' = <<Info("Resetting IC...")>>
            /\ pc' = "reset"
            /\ frame' = [IdleFrame EXCEPT !.step = 1]
    /\ UNCHANGED <<hw, mem, fault, manager, strategyFields, rng, timer3>>

ResetSteps == 2
ResetOp(k) ==
    CASE k = 1 -> [reg |-> "PORTG", val |-> BitOr(PORTG, ControlMask)]
      [] k = 2 -> [reg |-> "DDRL", val |-> DDR_INPUT]

Reset ==
    /\ pc = "reset"
    /\ LET op == ResetOp(frame.step) IN WriteReg(op.reg, op.val)
    /\ IF frame.step < ResetSteps
       THEN /\ frame' = [frame EXCEPT !.step = frame.step + 1]
            /\ pc' = pc
            /\ uartOut' = uartOut
       ELSE /\ frame' = [frame EXCEPT !.step = 0]
            /\ pc' = "loop"
            /\ uartOut' = uartOut \o <<Ok("IC reset complete")>>
    /\ UNCHANGED <<fault, manager, strategyFields, rng, cmd, ncmds, timer3>>

(***************************************************************************)
(* handleTestCommand                                                       *)
(***************************************************************************)
\* TEST options after the FULL flag is stripped: "" | "RANDOM" | a number
TestParams ==
    {[kind |-> k, n |-> 0] : k \in {"all", "random"}}
    \cup {[kind |-> "num", n |-> n] : n \in TestNumInputs}

\* a full-range pattern started on maxAddress = 65535 never leaves its first
\* address loop; those runs are outside this specification
LoopBounded(testNum) == BitLoop(testNum) \/ maxAddress < 65535

TestRunInfo(kind, fullTest) ==
    Msg("INFO", CASE kind = "all" -> "Running tests 1-6"
                  [] kind = "random" -> "Running tests 1-7"
                  [] OTHER -> "Running single test", <<IF fullTest THEN 1 ELSE 0>>)

\* uint8_t testNum = param.toInt()
ValidTestNum(testNum) == testNum >= 1 /\ testNum <= 7

TestCommand(param, fullTest) ==
        LET testNum == ToU8(param.n) IN
        /\ Receive([type |-> "TEST", arg |-> testNum, full |-> fullTest,
                     kind |-> param.kind])
        /\ IF NoModeSelected
           THEN /\ uartOut' = <<Error("No IC mode selected"),
                                Info("Use MODE command first: MODE SRAM <size>")>>
                /\ pc' = pc
                /\ frame' = IdleFrame
           ELSE IF currentStrategy = "nullptr"
           THEN /\ uartOut' = <<Error("No strategy configured")>>
                /\ pc' = pc
                /\ frame' = IdleFrame
           ELSE IF param.kind \in {"all", "random"}
           THEN /\ uartOut' = <<TestRunInfo(param.kind, fullTest)>>
                /\ pc' = "runAllTests"
                /\ frame' = [IdleFrame EXCEPT !.includeRandom = (param.kind = "random"),
                                              !.fullTest = fullTest,
                                              !.runAll = TRUE,
                                              !.caller = "handleTestCommand"]
           ELSE IF ValidTestNum(testNum)
           THEN /\ LoopBounded(testNum)
                /\ uartOut' = <<TestRunInfo(param.kind, fullTest)>>
                /\ pc' = "runTest"
                /\ frame' = [IdleFrame EXCEPT !.test = testNum,
                                              !.fullTest = fullTest,
                                              !.caller = "handleTestCommand"]
           ELSE /\ uartOut' = <<Error("Invalid TEST parameter"),
                                Info("Usage: TEST [FULL|RANDOM|RANDOM FULL|<1-7>|<1-7> FULL]")>>
                /\ pc' = pc
                /\ frame' = IdleFrame
        /\ UNCHANGED <<hw, mem, fault, manager, strategyFields, rng, timer3>>

HandleTestCommand ==
    \E param \in TestParams, fullTest \in BOOLEAN : TestCommand(param, fullTest)

(***************************************************************************)
(* SRAMStrategy::runAllTests and runTest                                   *)
(***************************************************************************)
MaxTest(includeRandom) == IF includeRandom THEN 7 ELSE 6
\* the loop of runAllTests: its condition, and what a result does to allPassed
RunAllContinues_StopOnFail(test, passed, maxTest) == passed /\ test <= maxTest
RunAllContinues(test, passed, maxTest) == test <= maxTest
AllPassedUpdate_LastOnly(allPassed, passed) == passed
AllPassedUpdate(allPassed, passed) == IF ~passed THEN FALSE ELSE allPassed

\* entry of runAllTests: the size check, then the loop starts at test 1
RunAllTests ==
    /\ pc = "runAllTests"
    /\ IF sramSize = 0
       THEN /\ uartOut' = StrategySend(<<Error("SRAM size not configured")>>)
            /\ frame' = [frame EXCEPT !.ret = "false"]
            /\ pc' = "loop"
       ELSE /\ uartOut' = uartOut
            /\ frame' = [frame EXCEPT !.test = 1, !.allPassed = TRUE]
            /\ pc' = "runTest"
    /\ UNCHANGED <<hw, mem, fault, manager, strategyFields, rng, cmd, ncmds, timer3>>

\* runTest dispatches to the pattern, which announces itself and starts its
\* first phase (test 7 seeds the generator first)
RunTest ==
    /\ pc = "runTest"
    /\ IF ValidTestNum(frame.test)
       THEN /\ uartOut' = StrategySend(<<TestStartMsg(frame.test, frame.fullTest)>>)
            /\ frame' = [frame EXCEPT !.phase = 1, !.i = 0, !.nw = 0, !.nr = 0]
            /\ rng' = IF frame.test = 7 THEN RandomSeedValue ELSE rng
            /\ pc' = "phase"
       ELSE /\ uartOut' = StrategySend(<<Error("Invalid test number (1-7)")>>)
            /\ frame' = [frame EXCEPT !.passed = FALSE]
            /\ rng' = rng
            /\ pc' = "return"
    /\ UNCHANGED <<hw, mem, fault, manager, strategyFields, cmd, ncmds, timer3>>

\* the generator when a further phase starts: test 7 seeds it again
PhaseSeed_NotReseeded(testNumber, rnd) == rnd
PhaseSeed(testNumber, rnd) == IF testNumber = 7 THEN RandomSeedValue ELSE rnd

\* head of a phase's loop: leave the phase, skip the address, or start the
\* iteration's bus cycle
PatternLoop ==
    /\ pc = "phase"
    /\ LET t == frame.test
           ph == frame.phase
           i == frame.i
           kind == PatternPhases(t)[ph]
       IN  IF ~LoopContinues(t, i)
           THEN IF ph < Len(PatternPhases(t))
                THEN /\ frame' = [frame EXCEPT !.phase = ph + 1, !.i = 0]
                     /\ rng' = PhaseSeed(t, rng)
                     /\ pc' = pc
                ELSE /\ frame' = frame
                     /\ rng' = rng
                     /\ pc' = "passed"
           ELSE IF ~BitLoop(t) /\ ~ShouldTestAddress(i, frame.fullTest)
           THEN /\ frame' = [frame EXCEPT !.i = ToU16(i + 1)]
                /\ rng' = rng
                /\ pc' = pc
           ELSE LET rnd == IF t = 7 THEN RandomNext(rng) ELSE rng IN
                /\ frame' = [frame EXCEPT !.addr = PatternAddr(t, i),
                                          !.data = PatternData(t, ph, i, rnd),
                                          !.step = 1]
                /\ rng' = rnd
                /\ pc' = IF kind = "v" THEN "readByte" ELSE "writeByte"
    /\ UNCHANGED <<hw, mem, fault, manager, strategyFields, cmd, ncmds, uartOut, timer3>>

(***************************************************************************)
(* writeByte and readByte, one statement per step                          *)
(***************************************************************************)
WriteByteSteps == 10
\* the strobe of a write cycle, and the direction writeByte leaves the data bus in
WriteStrobeBit_OE == OE_BIT
WriteStrobeBit == WE_BIT
DataBusAfterWrite_Kept == DDR_OUTPUT
DataBusAfterWrite == DDR_INPUT
WriteByteOp(k) ==
    CASE k = 1 -> [reg |-> "PORTA", val |-> SetAddressLow(frame.addr)]
      [] k = 2 -> [reg |-> "PORTC", val |-> SetAddressHigh(frame.addr)]
      [] k = 3 -> [reg |-> "DDRL", val |-> DDR_OUTPUT]
      [] k = 4 -> [reg |-> "PORTL", val |-> frame.data]
      [] k = 5 -> [reg |-> "PORTG", val |-> BitClear(PORTG, 2 ^ CS_BIT)]
      [] k = 6 -> [reg |-> "PORTG", val |-> BitClear(PORTG, 2 ^ WriteStrobeBit)]
      [] k = 7 -> [reg |-> "delay", val |-> 1]
      [] k = 8 -> [reg |-> "PORTG", val |-> BitOr(PORTG, 2 ^ WriteStrobeBit)]
      [] k = 9 -> [reg |-> "PORTG", val |-> BitOr(PORTG, 2 ^ CS_BIT)]
      [] k = 10 -> [reg |-> "DDRL", val |-> DataBusAfterWrite]

WriteByte ==
    /\ pc = "writeByte"
    /\ LET op == WriteByteOp(frame.step) IN WriteReg(op.reg, op.val)
    /\ IF frame.step < WriteByteSteps
       THEN /\ frame' = [frame EXCEPT !.step = frame.step + 1]
            /\ pc' = pc
       ELSE /\ frame' = [frame EXCEPT !.step = 1, !.nw = frame.nw + 1]
            /\ pc' = IF PatternPhases(frame.test)[frame.phase] = "wv"
                     THEN "readByte" ELSE "next"
    /\ UNCHANGED <<fault, manager, strategyFields, rng, cmd, ncmds, uartOut, timer3>>

ReadByteSteps == 9
ReadByteSample == 7
ReadByteOp_CSFirst(k) ==
    CASE k = 1 -> [reg |-> "PORTA", val |-> SetAddressLow(frame.addr)]
      [] k = 2 -> [reg |-> "PORTC", val |-> SetAddressHigh(frame.addr)]
      [] k = 3 -> [reg |-> "DDRL", val |-> DDR_INPUT]
      [] k = 4 -> [reg |-> "PORTG", val |-> BitClear(PORTG, 2 ^ CS_BIT)]
      [] k = 5 -> [reg |-> "PORTG", val |-> BitClear(PORTG, 2 ^ OE_BIT)]
      [] k = 6 -> [reg |-> "delay", val |-> 1]
      [] k = 7 -> [reg |-> "PINL", val |-> 0]
      [] k = 8 -> [reg |-> "PORTG", val |-> BitOr(PORTG, 2 ^ CS_BIT)]
      [] k = 9 -> [reg |-> "PORTG", val |-> BitOr(PORTG, 2 ^ OE_BIT)]
ReadByteOp(k) ==
    CASE k = 1 -> [reg |-> "PORTA", val |-> SetAddressLow(frame.addr)]
      [] k = 2 -> [reg |-> "PORTC", val |-> SetAddressHigh(frame.addr)]
      [] k = 3 -> [reg |-> "DDRL", val |-> DDR_INPUT]
      [] k = 4 -> [reg |-> "PORTG", val |-> BitClear(PORTG, 2 ^ CS_BIT)]
      [] k = 5 -> [reg |-> "PORTG", val |-> BitClear(PORTG, 2 ^ OE_BIT)]
      [] k = 6 -> [reg |-> "delay", val |-> 1]
      [] k = 7 -> [reg |-> "PINL", val |-> 0]
      [] k = 8 -> [reg |-> "PORTG", val |-> BitOr(PORTG, 2 ^ OE_BIT)]
      [] k = 9 -> [reg |-> "PORTG", val |-> BitOr(PORTG, 2 ^ CS_BIT)]

ReadByte ==
    /\ pc = "readByte"
    /\ LET op == ReadByteOp(frame.step) IN WriteReg(op.reg, op.val)
    /\ IF frame.step = ReadByteSample
       THEN \E data \in PinL :
                /\ frame' = [frame EXCEPT !.rd = data, !.step = frame.step + 1]
                /\ pc' = pc
       ELSE IF frame.step < ReadByteSteps
       THEN /\ frame' = [frame EXCEPT !.step = frame.step + 1]
            /\ pc' = pc
       ELSE /\ frame' = [frame EXCEPT !.step = 0, !.nr = frame.nr + 1]
            /\ pc' = "verify"
    /\ UNCHANGED <<fault, manager, strategyFields, rng, cmd, ncmds, uartOut, timer3>>

(***************************************************************************)
(* the rest of a pattern's iteration, and the end of the pattern           *)
(***************************************************************************)
\* the comparison after readByte: a mismatch reports and ends the pattern
Verify_ResultOnly ==
    /\ pc = "verify"
    /\ IF frame.rd # frame.data
       THEN /\ uartOut' = StrategySend(<<TestResultMsg(frame.test, FALSE)>>)
            /\ frame' = [frame EXCEPT !.passed = FALSE]
            /\ pc' = "return"
       ELSE /\ uartOut' = uartOut
            /\ frame' = frame
            /\ pc' = "next"
    /\ UNCHANGED <<hw, mem, fault, manager, strategyFields, rng, cmd, ncmds, timer3>>
Verify ==
    /\ pc = "verify"
    /\ IF frame.rd # frame.data
       THEN /\ uartOut' = StrategySend(
                    <<TestErrorMsg(frame.test, frame.addr, frame.data, frame.rd)>>
                    \o (IF BitLoop(frame.test)
                        THEN <<LineHintMsg(frame.test, frame.i)>> ELSE <<>>)
                    \o <<TestResultMsg(frame.test, FALSE)>>)
            /\ frame' = [frame EXCEPT !.passed = FALSE]
            /\ pc' = "return"
       ELSE /\ uartOut' = uartOut
            /\ frame' = frame
            /\ pc' = "next"
    /\ UNCHANGED <<hw, mem, fault, manager, strategyFields, rng, cmd, ncmds, timer3>>

\* end of the iteration: the progress report, then the loop increment
NextIteration ==
    /\ pc = "next"
    /\ uartOut' = IF ~BitLoop(frame.test)
                     /\ ProgressDue(frame.test, frame.phase, frame.i, frame.fullTest)
                  THEN StrategySend(<<ProgressMsg(frame.test, frame.phase, frame.i, maxAddress)>>)
                  ELSE uartOut
    /\ frame' = [frame EXCEPT !.i = IF BitLoop(frame.test) THEN ToU8(frame.i + 1)
                                    ELSE ToU16(frame.i + 1)]
    /\ pc' = "phase"
    /\ UNCHANGED <<hw, mem, fault, manager, strategyFields, rng, cmd, ncmds, timer3>>

\* every phase ran to its end
PatternPassed ==
    /\ pc = "passed"
    /\ uartOut' = StrategySend(<<TestResultMsg(frame.test, TRUE)>>)
    /\ frame' = [frame EXCEPT !.passed = TRUE]
    /\ pc' = "return"
    /\ UNCHANGED <<hw, mem, fault, manager, strategyFields, rng, cmd, ncmds, timer3>>

\* runTest returns: to the loop of runAllTests, or to the command handler
SummaryMsg(allPassed) ==
    IF allPassed THEN Ok("All tests PASSED") ELSE Error("Some tests FAILED")

RunTestReturn ==
    /\ pc = "return"
    /\ IF frame.runAll
       THEN LET all == AllPassedUpdate(frame.allPassed, frame.passed) IN
            IF RunAllContinues(frame.test + 1, frame.passed, MaxTest(frame.includeRandom))
            THEN /\ frame' = [frame EXCEPT !.allPassed = all, !.test = frame.test + 1]
                 /\ uartOut' = uartOut
                 /\ pc' = "runTest"
            ELSE /\ frame' = [frame EXCEPT !.allPassed = all,
                                           !.test = frame.test + 1,
                                           !.ret = IF all THEN "true" ELSE "false"]
                 /\ uartOut' = StrategySend(<<SummaryMsg(all)>>)
                 /\ pc' = "loop"
       ELSE /\ frame' = [frame EXCEPT !.ret = IF frame.passed THEN "true" ELSE "false"]
            /\ uartOut' = uartOut
            /\ pc' = "loop"
    /\ UNCHANGED <<hw, mem, fault, manager, strategyFields, rng, cmd, ncmds, timer3>>

(***************************************************************************)
(* STATUS, HELP and unknown commands only print                            *)
(***************************************************************************)
ModeName(mode) ==
    CASE mode = "NONE" -> "NONE"
      [] mode = "Z80" -> "Z80"
      [] mode = "IC6502" -> "6502"
      [] mode = "SRAM62256" -> "HM62256"
      [] OTHER -> "UNKNOWN"

HandleInfoCommand ==
    \E type \in {"STATUS", "HELP", "INVALID"} :
        /\ Receive([type |-> type, arg |-> 0, full |-> FALSE])
        /\ uartOut' = CASE type = "STATUS" ->
                            <<Info("Current Mode:"), Info(ModeName(currentMode))>>
                        [] type = "HELP" -> <<Info("Available Commands:")>>
                        [] OTHER ->
                            <<Error("Invalid command. Type HELP for command list.")>>
        /\ frame' = IdleFrame
        /\ UNCHANGED <<hw, mem, fault, manager, strategyFields, rng, pc, timer3>>

Next ==
    \/ HandleModeOther
    \/ HandleModeSRAM
    \/ SetSize
    \/ SetUARTHandler
    \/ ConfigurePins
    \/ SetStrategy
    \/ ModeReply
    \/ HandleResetCommand
    \/ Reset
    \/ HandleTestCommand
    \/ RunAllTests
    \/ RunTest
    \/ PatternLoop
    \/ WriteByte
    \/ ReadByte
    \/ Verify
    \/ NextIteration
    \/ PatternPassed
    \/ RunTestReturn
    \/ HandleInfoCommand

Spec == Init /\ [][Next]_vars

(***************************************************************************)
(* The strategy driven through the ICTestStrategy interface: the generic   *)
(* branch of handleTestCommand calls strategy->runTests().  The firmware   *)
(* takes the SRAM branch whenever a strategy is set, so this call is       *)
(* explored from the states a successful MODE SRAM <size> leaves behind.   *)
(***************************************************************************)
\* runTests(): the arguments it passes to runAllTests
RunTestsArgs == [includeRandom |-> FALSE, fullTest |-> FALSE]

CallRunTests ==
    /\ Receive([type |-> "TEST", arg |-> 0, full |-> FALSE])
    /\ ~NoModeSelected /\ currentStrategy # "nullptr"
    /\ uartOut' = <<Info("Starting tests...")>>
    /\ frame' = [IdleFrame EXCEPT !.includeRandom = RunTestsArgs.includeRandom,
                                  !.fullTest = RunTestsArgs.fullTest,
                                  !.runAll = TRUE,
                                  !.caller = "runTests"]
    /\ pc' = "runAllTests"
    /\ UNCHANGED <<hw, mem, fault, manager, strategyFields, rng, timer3>>

\* loop() after the first command, an accepted MODE SRAM <size>, from power-on
InitConfigured ==
    \E v \in {x \in SizeInputs : ~SizeRejected(x)} :
        /\ DDRA = DDR_OUTPUT /\ DDRC = DDR_OUTPUT /\ DDRL = DDR_INPUT
        /\ DDRG = ControlMask /\ PORTG = IdleControlLevels
        /\ PORTA = 0 /\ PORTC = 0 /\ PORTL = 0
        /\ mem = <<>>
        /\ fault \in Faults
        /\ currentMode = "SRAM62256" /\ currentStrategy = "sramStrategy"
        /\ sramSize = ToU16(v)
        /\ maxAddress = SetSizeMaxAddress(ToU16(v))
        /\ addressBits = SetSizeAddressBits(ToU16(v))
        /\ uart = "uart"
        /\ rng = 1
        /\ timer3 = Timer3Constructed
        /\ cmd = [type |-> "MODE", arg |-> v, full |-> FALSE] /\ ncmds = 1
        /\ pc = "loop" /\ frame = IdleFrame
        /\ uartOut = <<Msg("OK", "SRAM mode set", <<ToU16(v)>>)>>

NextInterface ==
    \/ CallRunTests
    \/ HandleTestCommand
    \/ RunAllTests
    \/ RunTest
    \/ PatternLoop
    \/ WriteByte
    \/ ReadByte
    \/ Verify
    \/ NextIteration
    \/ PatternPassed
    \/ RunTestReturn

SpecInterface == InitConfigured /\ [][NextInterface]_vars

(***************************************************************************)
(* The strategy on the bench: one TEST command on a configured tester with *)
(* a chosen device in the socket.  The devices are fault-free parts of     *)
(* several sizes and parts with one address or data line stuck; the runs   *)
(* of the large parts are the ones that do not sweep the whole range.      *)
(***************************************************************************)
StuckAt(kind, b) == [kind |-> kind, bit |-> b]
BenchSmallSizes == {1, 2, 4, 8}
BenchDevices ==
    {[size |-> n, fault |-> NoFault] : n \in BenchSmallSizes \cup {256, 1025, 1026, 2048, 32768}}
    \cup {[size |-> 32768, fault |-> StuckAt("addrLow", 7)]}
    \cup {[size |-> 512, fault |-> StuckAt("addrLow", b)] : b \in {0, 7, 8}}
    \cup {[size |-> 4, fault |-> StuckAt("addrLow", b)] : b \in {0, 1}}
    \cup {[size |-> 4, fault |-> StuckAt(k, b)] : k \in {"dataLow", "dataHigh"}, b \in 0 .. 7}

\* TEST [RANDOM] [FULL] and TEST <n> [FULL]
RunAll(kind, full) == [param |-> [kind |-> kind, n |-> 0], full |-> full]
RunOne(n, full) == [param |-> [kind |-> "num", n |-> n], full |-> full]
BenchRuns(size, f) ==
    IF size = 32768
    THEN {RunOne(2, full) : full \in BOOLEAN}
         \cup (IF f = NoFault
               THEN {RunOne(n, FALSE) : n \in {1, 4, 5, 6, 7}}
                    \cup {RunOne(3, full) : full \in BOOLEAN}
               ELSE {})
    ELSE IF size \in {1025, 1026} THEN {RunOne(6, FALSE)}
    ELSE IF size = 2048 THEN {RunAll("random", FALSE), RunOne(4, FALSE), RunOne(7, TRUE)}
    ELSE IF size > 8 THEN {RunAll("all", FALSE), RunAll("random", TRUE)}
    ELSE {RunAll(k, full) : k \in {"all", "random"}, full \in BOOLEAN}
         \cup {RunOne(n, full) : n \in 1 .. 7, full \in BOOLEAN}

\* loop() after MODE SRAM <size> on a freshly powered tester
ConfiguredFor(devices) ==
    \E d \in devices :
        /\ DDRA = DDR_OUTPUT /\ DDRC = DDR_OUTPUT /\ DDRL = DDR_INPUT
        /\ DDRG = ControlMask /\ PORTG = IdleControlLevels
        /\ PORTA = 0 /\ PORTC = 0 /\ PORTL = 0
        /\ mem = <<>>
        /\ fault = d.fault
        /\ currentMode = "SRAM62256" /\ currentStrategy = "sramStrategy"
        /\ sramSize = ToU16(d.size)
        /\ maxAddress = SetSizeMaxAddress(d.size)
        /\ addressBits = SetSizeAddressBits(d.size)
        /\ uart = "uart"
        /\ rng = 1
        /\ timer3 = Timer3Constructed
        /\ cmd = [type |-> "MODE", arg |-> d.size, full |-> FALSE]
        /\ ncmds = MaxCmds - 1
        /\ pc = "loop" /\ frame = IdleFrame
        /\ uartOut = <<Msg("OK", "SRAM mode set", <<ToU16(d.size)>>)>>

InitBench == ConfiguredFor(BenchDevices)

BenchTest == \E r \in BenchRuns(sramSize, fault) : TestCommand(r.param, r.full)

NextBench ==
    \/ BenchTest
    \/ RunAllTests
    \/ RunTest
    \/ PatternLoop
    \/ WriteByte
    \/ ReadByte
    \/ Verify
    \/ NextIteration
    \/ PatternPassed
    \/ RunTestReturn

SpecBench == InitBench /\ [][NextBench]_vars

(***************************************************************************)
(* The default catalogue (TEST, TEST FULL) on devices with one address     *)
(* line stuck low.                                                         *)
(***************************************************************************)
StuckAddressDevices ==
    {[size |-> 4, fault |-> StuckAt("addrLow", b)] : b \in {0, 1}}
    \cup {[size |-> 512, fault |-> StuckAt("addrLow", b)] : b \in {7, 8}}

InitStuckAddress == ConfiguredFor(StuckAddressDevices)

DefaultCatalogue ==
    \E full \in BOOLEAN : TestCommand(RunAll("all", full).param, full)

NextStuckAddress ==
    \/ DefaultCatalogue
    \/ RunAllTests
    \/ RunTest
    \/ PatternLoop
    \/ WriteByte
    \/ ReadByte
    \/ Verify
    \/ NextIteration
    \/ PatternPassed
    \/ RunTestReturn

SpecStuckAddress == InitStuckAddress /\ [][NextStuckAddress]_vars

(***************************************************************************)
(* handleClockCommand and handleClockStopCommand, and the command loop     *)
(* with the MODE and clock commands (loop() dispatches on cmd.type).       *)
(***************************************************************************)
\* values of parameter.toInt() in CLOCK <frequency>; an empty parameter is
\* the kind "none"
ClockParams ==
    {[kind |-> "none", n |-> 0]}
    \cup {[kind |-> "num", n |-> v] :
            v \in {-1, 0, 1, 2, 122, 123, 1000, 1000000, 8000000, 8000001}}

\* the range check on uint32_t frequency: a negative toInt() value converts
\* to an unsigned value above 2^31
MinFrequency == 1
MaxFrequency == 8000000
FrequencyRejected_NoUpperLimit(frequency) == frequency < MinFrequency
FrequencyRejected(frequency) ==
    frequency < MinFrequency \/ frequency > MaxFrequency

HandleClockCommand ==
    \E parameter \in ClockParams :
        /\ Receive([type |-> "CLOCK", arg |-> parameter.n, full |-> FALSE])
        /\ IF parameter.kind = "none"
           THEN /\ uartOut' = <<Error("Missing frequency. Usage: CLOCK <frequency>"),
                                Info("Example: CLOCK 1000000 (for 1 MHz)")>>
                /\ timer3' = timer3
           ELSE IF FrequencyRejected(parameter.n)
           THEN /\ uartOut' = <<Error("Frequency out of range (1 Hz to 8 MHz)")>>
                /\ timer3' = timer3
           ELSE /\ uartOut' = <<Msg("OK", "Clock started", <<parameter.n>>),
                                Info("Output on PE3 (pin 5)")>>
                /\ timer3' = Timer3Start(Timer3Configure(timer3, parameter.n))
        /\ frame' = IdleFrame
        /\ UNCHANGED <<hw, mem, fault, manager, strategyFields, rng, pc>>

HandleClockStopCommand ==
    /\ Receive([type |-> "CLOCKSTOP", arg |-> 0, full |-> FALSE])
    /\ timer3' = Timer3Stop(timer3)
    /\ uartOut' = <<Ok("Clock stopped")>>
    /\ frame' = IdleFrame
    /\ UNCHANGED <<hw, mem, fault, manager, strategyFields, rng, pc>>

NextClock ==
    \/ HandleClockCommand
    \/ HandleClockStopCommand
    \/ HandleModeOther
    \/ HandleModeSRAM
    \/ SetSize
    \/ SetUARTHandler
    \/ ConfigurePins
    \/ SetStrategy
    \/ ModeReply

SpecClock == Init /\ [][NextClock]_vars

(***************************************************************************)
(* The Timer3Clock object driven through its public methods in any order.  *)
(* cmd records the call made: the method, its argument, and in full        *)
(* whether the clock was running when it was called.                       *)
(***************************************************************************)
\* frequencies passed to configure(): the ends of each prescaler's range, and
\* 16 MHz, for which no prescaler yields a quotient
ConfigureFrequencies ==
    {1, 2, 3, 15, 16, 17, 121, 122, 123, 124, 244, 245, 1000, 9600, 1000000,
     2000000, 4000000, 5333333, 5333334, 7999999, 8000000, 16000000}
Timer3Call(method, arg) == [type |-> method, arg |-> arg, full |-> timer3.isRunning]

CallConfigure ==
    \E frequency \in ConfigureFrequencies :
        /\ cmd' = Timer3Call("configure", frequency)
        /\ timer3' = Timer3Configure(timer3, frequency)
        /\ UNCHANGED <<hw, mem, fault, manager, strategyFields, rng, ncmds, pc, frame, uartOut>>
CallStart ==
    /\ cmd' = Timer3Call("start", 0)
    /\ timer3' = Timer3Start(timer3)
    /\ UNCHANGED <<hw, mem, fault, manager, strategyFields, rng, ncmds, pc, frame, uartOut>>
CallStop ==
    /\ cmd' = Timer3Call("stop", 0)
    /\ timer3' = Timer3Stop(timer3)
    /\ UNCHANGED <<hw, mem, fault, manager, strategyFields, rng, ncmds, pc, frame, uartOut>>

InitTimer3 == Init /\ fault = NoFault
NextTimer3 ==
    \/ CallConfigure
    \/ CallStart
    \/ CallStop

SpecTimer3 == InitTimer3 /\ [][NextTimer3]_vars

TypeOK ==
    /\ DDRA \in Byte /\ DDRC \in Byte /\ DDRL \in Byte /\ DDRG \in Byte
    /\ PORTA \in Byte /\ PORTC \in Byte /\ PORTL \in Byte /\ PORTG \in Byte
    /\ sramSize \in 0 .. 65535 /\ maxAddress \in 0 .. 65535 /\ addressBits \in 0 .. 16
    /\ currentMode \in {"NONE", "Z80", "IC6502", "SRAM62256"}
    /\ ncmds \in 0 .. MaxCmds
    /\ timer3.isRunning \in BOOLEAN /\ timer3.OCR3A \in 0 .. 65535
    /\ timer3.TCCR3A \in Byte /\ timer3.TCCR3B \in Byte

(***************************************************************************)
(* Properties                                                              *)
(***************************************************************************)
InBusCycle == pc \in {"writeByte", "readByte"}
ControlHigh == Bit(PORTG, CS_BIT) = 1 /\ Bit(PORTG, OE_BIT) = 1 /\ Bit(PORTG, WE_BIT) = 1
\* the handler of the last command of the given type replied and returned to loop()
Replied(type, lvl) ==
    /\ pc = "loop" /\ cmd.type = type
    /\ uartOut # <<>> /\ uartOut[Len(uartOut)].lvl = lvl

\* C1: the data bus direction is Output only inside a writeByte call; in every
\* other state (after configurePins or reset, in a read cycle, between cycles,
\* between patterns, after a pattern aborted) it is Input.
C1_DataBusOutputOnlyInWrite ==
    /\ DDRL \in {DDR_INPUT, DDR_OUTPUT}
    /\ DDRL # DDR_INPUT => pc = "writeByte"
\* a pattern has written, then aborted on a mismatch, and the bus is released
C1_Witness ==
    /\ pc = "return" /\ ~frame.passed /\ frame.runAll
    /\ mem # <<>> /\ DDRL = DDR_INPUT

\* C2: the data bus is never an output while /OE is asserted.
C2_NoDriveWhileOutputEnabled == ~(DDRL # DDR_INPUT /\ OEAsserted)
\* a read cycle has /OE asserted on a cell written before
C2_Witness ==
    /\ pc = "readByte" /\ OEAsserted /\ CSAsserted
    /\ DeviceCell \in DOMAIN mem /\ DDRL = DDR_INPUT

\* C3: in every read and write cycle /CS is asserted strictly before the strobe
\* (/OE or /WE) and deasserted strictly after it: a step that asserts a strobe
\* starts with /CS asserted and leaves it asserted, a step that deasserts /CS
\* starts with both strobes deasserted, and no strobe is asserted without /CS.
StrobeAsserted == OEAsserted \/ WEAsserted
C3_ChipSelectBracketsStrobe ==
    [][InBusCycle =>
        /\ (~StrobeAsserted /\ StrobeAsserted') => (CSAsserted /\ CSAsserted')
        /\ (CSAsserted /\ ~CSAsserted') => (~StrobeAsserted /\ ~StrobeAsserted')
        /\ StrobeAsserted => CSAsserted]_vars
\* a write strobe inside its chip select, after a read cycle has completed
C3_Witness ==
    /\ pc = "writeByte" /\ WEAsserted /\ CSAsserted /\ ~OEAsserted
    /\ frame.i > 0 /\ PatternPhases(frame.test)[frame.phase] = "wv"

\* C4: right after MODE SRAM <size> succeeds and after every RESET in SRAM mode
\* the data bus is Input and /CS, /OE and /WE are high.
C4_IdleAfterModeAndReset ==
    (Replied("MODE", "OK") \/ Replied("RESET", "OK")) =>
        (DDRL = DDR_INPUT /\ ControlHigh)
\* a RESET completed after a test had run
C4_Witness == Replied("RESET", "OK") /\ mem # <<>> /\ currentMode = "SRAM62256"

\* C5: from the first step of configurePins on, outside a read or write cycle
\* none of /CS, /OE, /WE is an output driven low.
C5_ControlIdleOutsideCycles ==
    ~InBusCycle => (~CSAsserted /\ ~OEAsserted /\ ~WEAsserted)

IsPowerOfTwo(n) == n > 0 /\ BitAnd(n, n - 1) = 0
C7_NonPowerOfTwoRejected ==
    [][(ncmds' = ncmds + 1 /\ cmd'.type = "MODE" /\ ~IsPowerOfTwo(cmd'.arg)) =>
        /\ pc' = "loop" /\ uartOut'[1].lvl = "ERROR"
        /\ UNCHANGED <<currentMode, currentStrategy, sramSize>>]_vars

\* C8: with no mode selected, TEST and RESET each reply with the error, touch no
\* register and no cell, and leave the mode NONE.
C8_NoModeNoBusAccess ==
    [][(/\ pc = "loop" /\ currentMode = "NONE"
        /\ ncmds' = ncmds + 1 /\ cmd'.type \in {"TEST", "RESET"}) =>
        /\ pc' = "loop"
        /\ uartOut'[1] = Error("No IC mode selected")
        /\ UNCHANGED <<hw, mem, currentMode, currentStrategy>>]_vars
\* a TEST was answered with the error while no mode was selected
C8_Witness ==
    /\ pc = "loop" /\ currentMode = "NONE" /\ cmd.type = "TEST" /\ cmd.arg = 4
    /\ uartOut[1] = Error("No IC mode selected") /\ DDRG = 0

\* what the UART output of the current command shows of a run
IsStart(m) == m.text = "Test start"
IsResult(m) == m.text \in {"PASSED", "FAILED"}
IsSummary(m) == m.text \in {"All tests PASSED", "Some tests FAILED"}
StartMsgs == SelectSeq(uartOut, IsStart)
StartedTests == [k \in 1 .. Len(StartMsgs) |-> StartMsgs[k].args[1]]
Results == SelectSeq(uartOut, IsResult)
Summaries == SelectSeq(uartOut, IsSummary)
\* runAllTests has returned to the handler of the current TEST command
RunAllDone == pc = "loop" /\ cmd.type = "TEST" /\ frame.runAll /\ frame.ret # "none"

RECURSIVE RandomAfter(_)
RandomAfter(n) == IF n = 0 THEN RandomSeedValue ELSE RandomNext(RandomAfter(n - 1))

\* the loop indices a phase runs its body for, and how many of them precede i
TestedIndex(testNumber, i, fullTest) ==
    BitLoop(testNumber) \/ ShouldTestAddress(i, fullTest)
TestedBefore(i, fullTest) ==
    Cardinality({a \in 0 .. i - 1 : ShouldTestAddress(a, fullTest)})

\* the byte the phase writes or expects at loop index i
ExpectedAt(testNumber, phase, i, fullTest) ==
    IF testNumber = 7
    THEN RandomByte(RandomAfter(TestedBefore(i, fullTest) + 1))
    ELSE PatternData(testNumber, phase, i, 0)

\* the cell the device selects when the pattern addresses addr
CellAt(addr) == CellOf(SetAddressLow(addr), SetAddressHigh(addr))

\* the byte the verifying read of loop index i gets from the device: in a
\* verify phase the content of the cell, in a write-and-verify phase the byte
\* just written, through the data lines both ways
WouldRead(testNumber, phase, i, fullTest) ==
    IF PatternPhases(testNumber)[phase] = "v"
    THEN DataFault(mem[CellAt(PatternAddr(testNumber, i))])
    ELSE DataFault(DataFault(ExpectedAt(testNumber, phase, i, fullTest)))

C12_FaultFreePasses ==
    fault = NoFault =>
        /\ frame.passed
        /\ \A k \in 1 .. Len(uartOut) : uartOut[k].text \notin {"Test FAIL", "FAILED"}
        /\ (pc = "loop" /\ cmd.type = "TEST" /\ ~frame.runAll) =>
               /\ frame.ret = "true"
               /\ Results = <<Msg("OK", "PASSED", <<frame.test>>)>>
        /\ RunAllDone =>
               /\ frame.ret = "true"
               /\ Results = [k \in 1 .. MaxTest(frame.includeRandom) |->
                                Msg("OK", "PASSED", <<k>>)]
\* the seven patterns have passed in FULL mode on a fault-free 8-byte part
C12_Witness ==
    /\ RunAllDone /\ fault = NoFault /\ sramSize = 8 /\ frame.includeRandom
    /\ frame.fullTest /\ frame.ret = "true" /\ Len(Results) = 7

\* C13: WalkingOnesAddress first writes to address 1<<b, for every address bit
\* b, a value that differs from bit to bit, and reads back and verifies those
\* addresses only after all of the writes.
C13_WritesAllThenVerifies ==
    (frame.test = 2 /\ fault = NoFault) =>
        /\ pc = "readByte" => frame.nw = addressBits
        /\ (pc = "writeByte" /\ frame.step = 1) =>
               \A b \in 0 .. frame.i - 1 :
                   /\ CellAt(PatternAddr(2, b)) \in DOMAIN mem
                   /\ mem[CellAt(PatternAddr(2, b))] # frame.data

\* C14: with size 32768 and address line 7 stuck low, WalkingOnesAddress fails
\* and its first failure is reported at address 0x0080, with the value written
\* for bit 7 as expected and the value read back from cell 0 as actual.
C14_StuckA7Reported ==
    (/\ sramSize = 32768 /\ fault = StuckAt("addrLow", 7)
     /\ pc = "loop" /\ cmd.type = "TEST" /\ frame.test = 2 /\ ~frame.runAll) =>
        /\ frame.ret = "false"
        /\ \E k \in 1 .. Len(uartOut) :
               /\ uartOut[k].text = "Test FAIL"
               /\ uartOut[k].args[1] = 2 /\ uartOut[k].args[2] = 128
               /\ uartOut[k].args[4] = DataFault(mem[CellAt(128)])
               /\ \A j \in 1 .. k - 1 : uartOut[j].text # "Test FAIL"

\* C15: the default catalogue (tests 1-6, QUICK or FULL) on a device with one
\* address line A_b, b < addressBits, stuck low reports at least one FAILED
\* pattern and runAllTests returns false, for every b.
C15_StuckAddressLineDetected ==
    (/\ fault.kind = "addrLow" /\ fault.bit < addressBits
     /\ RunAllDone /\ ~frame.includeRandom) =>
        /\ frame.ret = "false"
        /\ \E k \in 1 .. Len(Results) : Results[k].text = "FAILED"

\* C16: WalkingOnesData writes and verifies at address 0 the eight values 1<<d
\* and then their eight complements: sixteen write/verify pairs on a
\* fault-free device.
C16_SixteenWriteVerifyPairs ==
    (frame.test = 3 /\ fault = NoFault) =>
        /\ (pc = "writeByte" /\ frame.step = 1) =>
               /\ frame.addr = 0
               /\ frame.data = IF frame.nw < 8 THEN 2 ^ frame.nw
                               ELSE 255 - 2 ^ (frame.nw - 8)
        /\ (pc = "return" /\ frame.passed) =>
               /\ frame.nw = 16 /\ frame.nr = 16
               /\ mem[CellAt(0)] = 127

\* C17: WalkingOnesData fails on every device with exactly one data line stuck
\* at 0 or stuck at 1.
C17_StuckDataLineFails ==
    (fault.kind \in {"dataLow", "dataHigh"} /\ frame.test = 3) =>
        /\ pc # "passed"
        /\ pc = "return" =>
               /\ ~frame.passed
               /\ uartOut[Len(uartOut)] = Msg("ERROR", "FAILED", <<3>>)
        /\ (pc = "loop" /\ cmd.type = "TEST" /\ ~frame.runAll) => frame.ret = "false"
\* the pattern has failed at the second value on a device whose D0 is stuck at 1
C17_Witness ==
    /\ fault = StuckAt("dataHigh", 0) /\ frame.test = 3 /\ pc = "return"
    /\ ~frame.passed /\ frame.i = 1 /\ frame.data = 2 /\ frame.rd = 3

\* C18: Checkerboard's first write phase stores 0x55 at the even and 0xAA at
\* the odd tested addresses, so that a fault-free 8-byte device then holds
\* 0x55, 0xAA, 0x55, 0xAA, 0x55, 0xAA, 0x55, 0xAA at addresses 0..7; the second
\* write phase stores the reverse assignment, which is then verified.
C18_CheckerboardAlternates ==
    (frame.test = 4 /\ fault = NoFault /\ sramSize = 8) =>
        /\ frame.phase = 2 =>
               \A a \in 0 .. 7 :
                   mem[CellAt(a)] = IF a % 2 = 0 THEN 85 ELSE 170
        /\ frame.phase = 4 =>
               \A a \in 0 .. 7 :
                   mem[CellAt(a)] = IF a % 2 = 0 THEN 170 ELSE 85

C20_VerifyExpectsWhatWasWritten ==
    [][frame.test = 7 =>
        \* both phases start from the seed
        /\ (pc = "phase" /\ frame.i = 0) => rng = RandomSeedValue
        \* one draw when a tested address starts its cycle, none anywhere else
        /\ (pc = "phase" /\ pc' \in {"writeByte", "readByte"}) =>
               /\ rng' = RandomNext(rng)
               /\ frame'.addr = frame.i /\ ShouldTestAddress(frame.i, frame.fullTest)
               /\ pc' = (IF frame.phase = 1 THEN "writeByte" ELSE "readByte")
        /\ (pc = "phase" /\ pc' = "phase" /\ frame'.phase = frame.phase) =>
               /\ rng' = rng /\ ~ShouldTestAddress(frame.i, frame.fullTest)
        /\ (pc \notin {"phase", "return", "runTest"}) => rng' = rng
        \* the byte of a cycle is the one drawn for it: the k-th tested address
        \* of either phase gets the k-th byte of the sequence
        /\ InBusCycle =>
               /\ frame.data = RandomByte(rng)
               /\ LET k == IF frame.phase = 1 THEN frame.nw ELSE frame.nr
                  IN  (frame.step = 1 /\ k < 64) => rng = RandomAfter(k + 1)
               /\ (frame.phase = 2 /\ fault = NoFault) =>
                      mem[CellAt(frame.addr)] = frame.data]_vars
\* the verify phase expects at address 3 the fourth byte of the sequence
C20_Witness ==
    /\ frame.test = 7 /\ pc = "readByte" /\ frame.phase = 2 /\ sramSize = 4
    /\ fault = NoFault /\ frame.addr = 3 /\ frame.nr = 3 /\ frame.nw = 4
    /\ frame.data = RandomByte(RandomAfter(4)) /\ mem[CellAt(3)] = frame.data
    /\ mem[CellAt(2)] # frame.data

\* C21: in QUICK mode an address of [0, size) is tested exactly when it is
\* below 512, or among the last 512 addresses, or an exact power of two, or a
\* multiple of 128, for every size, also when maxAddress - 512 wraps.
C21_QuickSampling ==
    [][(/\ pc = "phase" /\ ~BitLoop(frame.test) /\ ~frame.fullTest
        /\ frame.i <= maxAddress) =>
           LET a == frame.i
               sampled == \/ a < 512
                          \/ a + 512 > maxAddress
                          \/ \E k \in 0 .. 15 : a = 2 ^ k
                          \/ a % 128 = 0
           IN  /\ sampled <=> pc' \in {"writeByte", "readByte"}
               /\ ~sampled <=> (pc' = "phase" /\ frame'.i = a + 1 /\ frame'.nw = frame.nw)
               /\ pc' \in {"writeByte", "readByte"} => frame'.addr = a]_vars
\* QUICK mode tests address 3 of a 4-byte device: maxAddress - 512 has wrapped
\* to 65027, so only the "below 512" clause selects it
C21_Witness ==
    /\ pc = "writeByte" /\ ~frame.fullTest /\ ~BitLoop(frame.test)
    /\ sramSize = 4 /\ frame.addr = 3 /\ frame.i = 3
    /\ ToU16(maxAddress - QuickEdge) = 65027

\* the addresses of the configured device a full-range pattern tests
QuickSet == {a \in 0 .. maxAddress : ShouldTestAddress(a, FALSE)}
FullSet == {a \in 0 .. maxAddress : ShouldTestAddress(a, TRUE)}

\* C22 as stated: for every configured size the QUICK set is a strict subset
\* of the FULL set.
C22_QuickStrictSubset ==
    pc = "runTest" => (QuickSet \subseteq FullSet /\ QuickSet # FullSet)

\* C22: the addresses QUICK mode tests are a subset of those FULL mode tests,
\* a strict subset exactly when the size is above 1025, and the same set on
\* every run with the same size: a run of the inversion pattern that passes
\* has written and read each address of the set once.
C22_QuickSubset ==
    /\ pc = "runTest" =>
           /\ FullSet = 0 .. maxAddress
           /\ QuickSet \subseteq FullSet
           /\ QuickSet # FullSet <=> sramSize > 1025
    /\ (pc = "passed" /\ frame.test = 6) =>
           LET n == IF frame.fullTest THEN maxAddress + 1 ELSE Cardinality(QuickSet)
           IN  frame.nw = n /\ frame.nr = n
\* a QUICK run of the inversion pattern starts on the 1026-byte device, where
\* the QUICK set is the FULL set without address 513
C22_Witness ==
    /\ pc = "runTest" /\ frame.test = 6 /\ ~frame.fullTest
    /\ sramSize = 1026 /\ FullSet \ QuickSet = {513}

(***************************************************************************)
(* TEST 4 and TEST 5 (QUICK) after MODE SRAM 65536, taken up where the     *)
(* first write loop is WrapWindow addresses before 0xFFFF.                 *)
(* handleTestCommand passes the test number to runTest without looking at  *)
(* the size.                                                               *)
(***************************************************************************)
WrapWindow == 4
\* the last address below i the loop has run its body for (i > 0)
RECURSIVE LastTestedBelow(_, _)
LastTestedBelow(i, fullTest) ==
    IF ShouldTestAddress(i - 1, fullTest) THEN i - 1 ELSE LastTestedBelow(i - 1, fullTest)

\* the tester at the head of the first loop of testCheckerboard (t = 4) or
\* testInverseCheckerboard (t = 5) with addr = i, in a TEST <t> [FULL] given
\* first after MODE SRAM <d.size>
LoopHead(d, t, fullTest, i) ==
    /\ fault = d.fault
    /\ currentMode = "SRAM62256" /\ currentStrategy = "sramStrategy"
    /\ sramSize = ToU16(d.size)
    /\ maxAddress = SetSizeMaxAddress(d.size)
    /\ addressBits = SetSizeAddressBits(d.size)
    /\ uart = "uart"
    /\ rng = 1
    /\ timer3 = Timer3Constructed
    /\ cmd = [type |-> "TEST", arg |-> t, full |-> fullTest, kind |-> "num"]
    /\ ncmds = MaxCmds
    /\ pc = "phase"
    /\ LET last == IF i = 0 THEN 0 ELSE LastTestedBelow(i, fullTest)
           data == IF i = 0 THEN 0 ELSE PatternData(t, 1, last, 0)
           tested == {a \in 0 .. i - 1 : ShouldTestAddress(a, fullTest)}
           reports == IF fullTest /\ i > 0 THEN (i - 1) \div 4096 ELSE 0
       IN  /\ DDRA = DDR_OUTPUT /\ DDRC = DDR_OUTPUT /\ DDRL = DDR_INPUT
           /\ DDRG = ControlMask /\ PORTG = IdleControlLevels
           /\ PORTA = SetAddressLow(last)
           /\ PORTC = IF i = 0 THEN 0 ELSE SetAddressHigh(last)
           /\ PORTL = data
           /\ mem = [c \in {CellAt(a) : a \in tested} |-> DataFault(PatternData(t, 1, 0, 0))]
           /\ frame = [IdleFrame EXCEPT !.test = t, !.phase = 1, !.i = i,
                                        !.fullTest = fullTest,
                                        !.caller = "handleTestCommand",
                                        !.addr = last, !.data = data,
                                        !.step = IF i = 0 THEN 0 ELSE 1,
                                        !.nw = Cardinality(tested)]
           /\ uartOut = <<TestRunInfo("num", fullTest), TestStartMsg(t, fullTest)>>
                        \o [k \in 1 .. reports |-> ProgressMsg(t, 1, 4096 * k, maxAddress)]

\* LoopHead describes the loop heads the command loop reaches (compared on
\* the parts of up to 2048 bytes)
LoopHeadReached ==
    (/\ pc = "phase" /\ frame.test \in {4, 5} /\ frame.phase = 1 /\ ~frame.runAll
     /\ ncmds = MaxCmds /\ frame.i <= maxAddress /\ maxAddress < 2048) =>
        LoopHead([size |-> sramSize, fault |-> fault], frame.test, frame.fullTest, frame.i)

InitWrap ==
    \E t \in {4, 5} :
        LoopHead([size |-> 65536, fault |-> NoFault], t, FALSE, 65536 - WrapWindow)

\* the loop indices within WrapWindow of the 16-bit wrap
NearWrap(i) == i >= 65536 - WrapWindow \/ i < WrapWindow
WrapPatternLoop == NearWrap(frame.i) /\ PatternLoop

NextWrap ==
    \/ WrapPatternLoop
    \/ WriteByte
    \/ NextIteration

SpecWrap == InitWrap /\ [][NextWrap]_vars

\* the write phases (verify phases) of pattern t among its first n phases
PhasesOfKind(t, n, kind) == Cardinality({k \in 1 .. n : PatternPhases(t)[k] = kind})

\* C23: in FULL mode the patterns 4, 5, 6 and 7 write and verify each address
\* of [0, size) exactly once per phase, in ascending order, on a fault-free
\* device, and no pattern accesses a logical address at or above the size.
C23_FullOncePerPhase ==
    LET t == frame.test
        size == sramSize
    IN  /\ InBusCycle => frame.addr < size
        /\ (fault = NoFault /\ frame.fullTest /\ t \in 4 .. 7) =>
             /\ (pc = "writeByte" /\ frame.step = 1) =>
                    /\ frame.addr = frame.i
                    /\ frame.nw = PhasesOfKind(t, frame.phase - 1, "w") * size + frame.addr
                    /\ frame.nr = PhasesOfKind(t, frame.phase, "v") * size
             /\ (pc = "readByte" /\ frame.step = 1) =>
                    /\ frame.addr = frame.i
                    /\ frame.nr = PhasesOfKind(t, frame.phase - 1, "v") * size + frame.addr
                    /\ frame.nw = PhasesOfKind(t, frame.phase, "w") * size
             /\ pc = "passed" =>
                    /\ frame.nw = PhasesOfKind(t, Len(PatternPhases(t)), "w") * size
                    /\ frame.nr = frame.nw

\* C24: every runTest and runAllTests call terminates, for every size MODE
\* SRAM accepts and in both modes: no address loop runs forever.  Within a
\* phase the loop index only moves up, towards the end of the loop, so the
\* loop ends after at most maxAddress + 1 iterations.
C24_AddressLoopsAdvance ==
    [][(pc \in {"phase", "next"} /\ pc' \in {"phase", "next"}
        /\ frame'.test = frame.test /\ frame'.phase = frame.phase
        /\ frame'.i # frame.i) =>
           /\ frame'.i > frame.i
           /\ frame'.i <= IF BitLoop(frame.test) THEN BitLoopLimit(frame.test)
                          ELSE maxAddress + 1]_vars

\* C25: after an accepted MODE SRAM <size>, for every accepted size up to and
\* including 65536, getSize() is the requested size, maxAddress is size - 1
\* and addressBits is log2(size), the number of address lines the size needs.
C25_SizeFieldsMatchRequest ==
    Replied("MODE", "OK") =>
        /\ sramSize = cmd.arg
        /\ maxAddress = cmd.arg - 1
        /\ 2 ^ addressBits >= cmd.arg
        /\ addressBits > 0 => 2 ^ (addressBits - 1) < cmd.arg

\* C26: the Timer3 clock is stopped before a mode switch: whenever a MODE
\* command has just put the tester into SRAM mode, timer3.running() is false,
\* also when a CLOCK command started the clock earlier.
C26_ClockStoppedAfterModeSwitch ==
    (Replied("MODE", "OK") /\ currentMode = "SRAM62256") => ~timer3.isRunning

\* C27: Timer3Clock keeps its running flag and frequency as documented:
\* running() is false initially, false after configure() (even if the clock
\* was running before), true after start(), false after stop(); stop() is
\* idempotent; getFrequency() returns the frequency of the most recent
\* configure(), 0 if there was none.
C27_Timer3Lifecycle ==
    /\ cmd.type = "NONE" => (~timer3.isRunning /\ timer3.currentFrequency = 0)
    /\ [][/\ cmd'.type = "configure" =>
                (~timer3'.isRunning /\ timer3'.currentFrequency = cmd'.arg)
          /\ cmd'.type = "start" =>
                (timer3'.isRunning /\ timer3'.currentFrequency = timer3.currentFrequency)
          /\ cmd'.type = "stop" =>
                /\ ~timer3'.isRunning
                /\ timer3'.currentFrequency = timer3.currentFrequency
                /\ cmd.type = "stop" => timer3' = timer3]_vars
\* configure(1000) has been called on a running clock and left it stopped
C27_Witness ==
    /\ cmd = [type |-> "configure", arg |-> 1000, full |-> TRUE]
    /\ ~timer3.isRunning /\ timer3.currentFrequency = 1000

\* C28: a CLOCK command with a missing frequency or one outside 1..8,000,000
\* Hz is rejected with an error and leaves the running flag, the frequency and
\* the timer registers unchanged; a CLOCK with a valid f leaves the clock
\* running with getFrequency() = f, also when it was already running; a
\* CLOCKSTOP always leaves it stopped.
C28_ClockCommands ==
    [][ncmds' = ncmds + 1 =>
         /\ cmd'.type = "CLOCK" =>
               IF cmd'.arg >= 1 /\ cmd'.arg <= 8000000
               THEN /\ uartOut'[1].lvl = "OK" /\ uartOut'[1].args = <<cmd'.arg>>
                    /\ timer3'.isRunning
                    /\ timer3'.currentFrequency = cmd'.arg
                    /\ timer3'.TCCR3B = (2 ^ WGM32) + timer3'.prescalerBits
                    /\ timer3'.prescalerBits \in 1 .. 5
               ELSE /\ uartOut'[1].lvl = "ERROR"
                    /\ timer3' = timer3
         /\ cmd'.type = "CLOCKSTOP" =>
               /\ ~timer3'.isRunning /\ timer3'.TCCR3B = 0 /\ timer3'.TCCR3A = 0
               /\ uartOut' = <<Ok("Clock stopped")>>]_vars
\* CLOCK 1000000 was accepted, and an out-of-range CLOCK after it has been
\* answered with the error and has left the clock running at 1 MHz
C28_Witness ==
    /\ cmd = [type |-> "CLOCK", arg |-> 8000001, full |-> FALSE]
    /\ uartOut = <<Error("Frequency out of range (1 Hz to 8 MHz)")>>
    /\ timer3.isRunning /\ timer3.currentFrequency = 1000000
    /\ timer3.TCCR3B = (2 ^ WGM32) + (2 ^ CS30)

\* floor(F_CPU / (2 * p * f)) over the integers
Quotient(p, f) == (16000000 \div (2 * p)) \div f

\* the selection the claim describes, for frequency f and the result sel
FirstFittingPrescaler(f, sel) ==
    LET ps == <<1, 8, 64, 256, 1024>>
        cs == <<1, 2, 3, 4, 5>>
        ok(i) == Quotient(ps[i], f) >= 1 /\ Quotient(ps[i], f) <= 65536
    IN  \E i \in 1 .. 5 :
            /\ ok(i) /\ \A j \in 1 .. i - 1 : ~ok(j)
            /\ sel.bits = cs[i]
            /\ sel.ocr3a = Quotient(ps[i], f) - 1
            /\ sel.ocr3a <= 65535
            /\ sel.index = i
            /\ \A j \in 1 .. i : f <= 2147483647 \div ps[j]
\* frequencies of 1..8,000,000: the low end, where the prescaler changes, a
\* grid over the range, and the high end
SampledFrequencies ==
    (1 .. 20000) \cup {4001 * k : k \in 1 .. 1999} \cup {8000000 - k : k \in 0 .. 2000}

DispatchedTests ==
    CASE cmd.kind = "all" -> [k \in 1 .. 6 |-> TestStartMsg(k, cmd.full)]
      [] cmd.kind = "random" -> [k \in 1 .. 7 |-> TestStartMsg(k, cmd.full)]
      [] OTHER -> <<TestStartMsg(cmd.arg, cmd.full)>>

\* C30: in SRAM mode TEST runs tests 1-6 in QUICK mode, TEST FULL tests 1-6 in
\* FULL mode, TEST RANDOM tests 1-7 in QUICK mode, TEST RANDOM FULL tests 1-7
\* in FULL mode, and TEST <n> [FULL] with n in 1..7 exactly test n in that mode.
C30_TestDispatch ==
    (/\ cmd.type = "TEST" /\ "kind" \in DOMAIN cmd /\ currentMode = "SRAM62256"
     /\ cmd.kind = "num" => cmd.arg \in 1 .. 7) =>
        /\ Len(StartMsgs) <= Len(DispatchedTests)
        /\ StartMsgs = SubSeq(DispatchedTests, 1, Len(StartMsgs))
        /\ pc = "loop" => StartMsgs = DispatchedTests

InvalidTestReply ==
    <<Error("Invalid TEST parameter"),
      Info("Usage: TEST [FULL|RANDOM|RANDOM FULL|<1-7>|<1-7> FULL]")>>

\* C31: in SRAM mode TEST <n> starts a single test only when n is in 1..7; for
\* every other number (0, 8, 257, ...) the command answers "Invalid TEST
\* parameter" and returns to loop() with no test started and no register of
\* the bus written.
C31_OnlyOneToSevenRuns ==
    [][\A n \in TestNumInputs, fullTest \in BOOLEAN :
          (currentMode = "SRAM62256" /\ TestCommand([kind |-> "num", n |-> n], fullTest)) =>
              IF n \in 1 .. 7
              THEN pc' = "runTest" /\ frame'.test = n
              ELSE /\ pc' = "loop" /\ uartOut' = InvalidTestReply
                   /\ UNCHANGED <<hw, mem>>]_vars

\* C32: the mode manager is consistent in every reachable state: currentMode
\* is NONE exactly when currentStrategy is null, in mode SRAM62256 the strategy
\* pointer is the SRAM strategy, and before the first command the mode is NONE.
C32_ModeManagerConsistent ==
    /\ currentMode \in {"NONE", "SRAM62256"}
    /\ currentMode = "NONE" <=> currentStrategy = "nullptr"
    /\ currentMode = "SRAM62256" => currentStrategy = "sramStrategy"
    /\ ncmds = 0 => currentMode = "NONE"
\* setStrategy has just returned in the handler of an accepted MODE SRAM <size>
C32_Witness ==
    /\ pc = "modeReply" /\ cmd.type = "MODE"
    /\ currentMode = "SRAM62256" /\ currentStrategy = "sramStrategy"

(***************************************************************************)
(* TEST 4 FULL and TEST 5 FULL on an 8192-byte part, taken up one address  *)
(* before the first progress report is due (addr = 4096), in the first     *)
(* write loop and in the second write loop of the pattern, and followed    *)
(* for ProgressWindow addresses beyond it.                                 *)
(***************************************************************************)
ProgressWindow == 3
ProgressPeriod == 4096

\* the tester at the head of the second write loop of testCheckerboard (t = 4)
\* or testInverseCheckerboard (t = 5) with addr = i, in a TEST <t> FULL given
\* first after MODE SRAM <d.size> with a fault-free device
SecondWriteHead(d, t, i) ==
    /\ fault = d.fault
    /\ currentMode = "SRAM62256" /\ currentStrategy = "sramStrategy"
    /\ sramSize = ToU16(d.size)
    /\ maxAddress = SetSizeMaxAddress(d.size)
    /\ addressBits = SetSizeAddressBits(d.size)
    /\ uart = "uart"
    /\ rng = 1
    /\ timer3 = Timer3Constructed
    /\ cmd = [type |-> "TEST", arg |-> t, full |-> TRUE, kind |-> "num"]
    /\ ncmds = MaxCmds
    /\ pc = "phase"
    /\ LET first == PatternData(t, 1, 0, 0)
           second == PatternData(t, 3, 0, 0)
           last == IF i = 0 THEN maxAddress ELSE i - 1
           reports == maxAddress \div ProgressPeriod
       IN  /\ DDRA = DDR_OUTPUT /\ DDRC = DDR_OUTPUT /\ DDRL = DDR_INPUT
           /\ DDRG = ControlMask /\ PORTG = IdleControlLevels
           /\ PORTA = SetAddressLow(last)
           /\ PORTC = SetAddressHigh(last)
           /\ PORTL = IF i = 0 THEN first ELSE second
           /\ mem = [c \in {CellAt(a) : a \in 0 .. maxAddress} |->
                        IF c < CellAt(i) THEN second ELSE first]
           /\ frame = [IdleFrame EXCEPT !.test = t, !.phase = 3, !.i = i,
                                        !.fullTest = TRUE,
                                        !.caller = "handleTestCommand",
                                        !.addr = last,
                                        !.data = IF i = 0 THEN first ELSE second,
                                        !.rd = first,
                                        !.step = IF i = 0 THEN 0 ELSE 1,
                                        !.nw = maxAddress + 1 + i,
                                        !.nr = maxAddress + 1]
           /\ uartOut = <<TestRunInfo("num", TRUE), TestStartMsg(t, TRUE)>>
                        \o [k \in 1 .. reports |->
                               ProgressMsg(t, 1, ProgressPeriod * k, maxAddress)]
                        \o [k \in 1 .. reports |->
                               ProgressMsg(t, 2, ProgressPeriod * k, maxAddress)]

\* SecondWriteHead describes the loop heads the command loop reaches
SecondWriteHeadReached ==
    (/\ pc = "phase" /\ frame.test \in {4, 5} /\ frame.phase = 3 /\ ~frame.runAll
     /\ frame.fullTest /\ fault = NoFault
     /\ ncmds = MaxCmds /\ frame.i <= maxAddress) =>
        SecondWriteHead([size |-> sramSize, fault |-> fault], frame.test, frame.i)

ProgressPart == [size |-> 8192, fault |-> NoFault]
InitProgress ==
    \E t \in {4, 5} :
        \/ LoopHead(ProgressPart, t, TRUE, ProgressPeriod - 1)
        \/ SecondWriteHead(ProgressPart, t, ProgressPeriod - 1)

ProgressPatternLoop == frame.i <= ProgressPeriod + ProgressWindow /\ PatternLoop

NextProgress ==
    \/ ProgressPatternLoop
    \/ WriteByte
    \/ NextIteration

SpecProgress == InitProgress /\ [][NextProgress]_vars

\* C33: in a FULL-mode run of a full-range pattern on a device larger than
\* 4096 bytes, every write phase and every verify phase reports progress at
\* every multiple of 4096 addresses: the iteration of such an address ends
\* with a progress report of the pattern and the phase.
C33_ProgressEveryPhase ==
    [][(/\ pc = "next" /\ frame.fullTest /\ ~BitLoop(frame.test)
        /\ sramSize > ProgressPeriod
        /\ frame.i > 0 /\ frame.i % ProgressPeriod = 0) =>
           /\ Len(uartOut') = Len(uartOut) + 1
           /\ uartOut'[Len(uartOut')].text = "Progress"
           /\ uartOut'[Len(uartOut')].args[1] = frame.test
           /\ uartOut'[Len(uartOut')].args[2] = frame.phase]_vars

\* the state configurePins leaves the pins in
PinsConfigured ==
    /\ DDRA = DDR_OUTPUT /\ DDRC = DDR_OUTPUT
    /\ BitAnd(DDRG, ControlMask) = ControlMask
PinsIdle == PinsConfigured /\ DDRL = DDR_INPUT /\ ControlHigh
InModeHandler == pc \in {"setSize", "setUARTHandler", "configurePins", "setStrategy"}

C35_ModeErrorChangesNothing ==
    [][(pc = "loop" /\ ncmds' = ncmds + 1 /\ cmd'.type = "MODE") =>
          IF cmd'.arg >= 1 /\ cmd'.arg <= MaxSramSize
          THEN pc' = "setSize" /\ uartOut' = <<>>
          ELSE /\ pc' = "loop"
               /\ uartOut' # <<>> /\ uartOut'[1].lvl = "ERROR"
               /\ UNCHANGED <<hw, mem, manager, strategyFields>>]_vars
\* a rejected MODE has been answered on a tester that is in SRAM mode with a
\* 4-byte part, after an earlier command
C35_Witness ==
    /\ pc = "loop" /\ cmd.type = "MODE" /\ ncmds >= 2
    /\ uartOut # <<>> /\ uartOut[1].lvl = "ERROR"
    /\ currentMode = "SRAM62256" /\ currentStrategy = "sramStrategy"
    /\ sramSize = 4 /\ maxAddress = 3 /\ DDRA = DDR_OUTPUT /\ PORTG = IdleControlLevels

AddressSet ==
    PORTA = SetAddressLow(frame.addr) /\ PORTC = SetAddressHigh(frame.addr)

\* C36: a write cycle takes its steps in the order address set, /CS low, data
\* bus to OUTPUT with the data, /WE low, wait, /WE high, /CS high, data bus
\* back to INPUT: each of these register events of writeByte happens in the
\* state the earlier ones leave, and in particular the data bus direction
\* becomes OUTPUT only with /CS already asserted.
C36_WriteCycleOrder ==
    [][pc = "writeByte" =>
          /\ (~CSAsserted /\ CSAsserted') => AddressSet /\ DDRL = DDR_INPUT
          /\ (DDRL # DDR_OUTPUT /\ DDRL' = DDR_OUTPUT) => AddressSet /\ CSAsserted
          /\ (~WEAsserted /\ WEAsserted') =>
                /\ AddressSet /\ CSAsserted
                /\ DDRL = DDR_OUTPUT /\ PORTL = frame.data
          /\ (WEAsserted /\ ~WEAsserted') => CSAsserted /\ DDRL = DDR_OUTPUT
          /\ (CSAsserted /\ ~CSAsserted') => ~WEAsserted /\ DDRL = DDR_OUTPUT
          /\ (DDRL = DDR_OUTPUT /\ DDRL' = DDR_INPUT) => ~CSAsserted /\ ~WEAsserted]_vars

\* readByte is about to read PINL
SamplingData == pc = "readByte" /\ frame.step = ReadByteSample

\* C37: /WE and /OE are never asserted at the same time, and the data lines
\* are sampled (PINL read) only while the data port is an input, /CS and /OE
\* are asserted and /WE is deasserted.
C37_StrobesExclusiveAndSampleValid ==
    /\ ~(WEAsserted /\ OEAsserted)
    /\ SamplingData => DDRL = DDR_INPUT /\ CSAsserted /\ OEAsserted /\ ~WEAsserted

\* C38: while the configured size is 0, no pattern is started and no bus
\* cycle is made, and a TEST command that selects a pattern or the catalogue
\* in SRAM mode is answered "SRAM size not configured" with the call
\* returning false, by runAllTests and by runTest alike.
C38_SizeZeroRunsNothing ==
    sramSize = 0 =>
        /\ ~InBusCycle
        /\ StartMsgs = <<>>
        /\ (/\ pc = "loop" /\ cmd.type = "TEST" /\ currentMode = "SRAM62256"
            /\ cmd.kind = "num" => cmd.arg \in 1 .. 7) =>
               /\ frame.ret = "false"
               /\ uartOut = <<TestRunInfo(cmd.kind, cmd.full),
                              Error("SRAM size not configured")>>

\* the lines a pattern run reports with: start, progress, mismatch, result
IsProgress(m) == m.text = "Progress"
IsMismatch(m) == m.text = "Test FAIL"
IsHint(m) == m.text \in {"Possible issue with address line", "Possible issue with data line"}
IsEvent(m) == IsStart(m) \/ IsProgress(m) \/ IsMismatch(m) \/ IsResult(m)
Events == SelectSeq(uartOut, IsEvent)
InPattern == pc \in {"phase", "writeByte", "readByte", "verify", "next", "passed"}

\* the event at position k of e may follow the one before it
EventInOrder(e, k) ==
    LET m == e[k]
        before(ok(_)) == k > 1 /\ ok(e[k - 1]) /\ e[k - 1].args[1] = m.args[1]
        open(x) == IsStart(x) \/ IsProgress(x)
    IN  CASE IsStart(m) -> k = 1 \/ IsResult(e[k - 1])
          [] IsProgress(m) -> before(open)
          [] IsMismatch(m) -> before(open)
          [] m.text = "PASSED" -> before(open)
          [] m.text = "FAILED" -> before(IsMismatch)

====
